---------------------------- MODULE Spec2Model ----------------------------
(***************************************************************************)
(* A model of the shared-library closure bundler (package main: main,      *)
(* processBinary and its helpers).  One batch run is modelled: the         *)
(* positional arguments and the flags are fixed by Init, the output tree   *)
(* starts empty, and each iteration of main's loop is one action that runs *)
(* the whole of processBinary on the next argument.                        *)
(*                                                                         *)
(* The output tree is the record fs.  Only the paths the program writes    *)
(* are kept: <dst>, <dst>/sharun, <dst>/bin/<name>, <dst>/shared/bin/<name>*)
(* and <dst>/shared/lib/<base>.  A file's content is named by the path it  *)
(* was read from.  The destination is writable and nothing else writes it, *)
(* so MkdirAll and Chmod succeed; the failures that do occur are the ones  *)
(* the inputs decide: a missing or non-regular input, an unreadable source,*)
(* a launcher or strip tool that is not on PATH, a strip that rejects the  *)
(* file, an existing entry where a symlink is to be made, and a failed     *)
(* dependency resolution.                                                  *)
(***************************************************************************)
EXTENDS Integers, Sequences, FiniteSets, TLC

\* The longest list of positional arguments the model explores.
MaxBatch == 3

\* os.WriteFile's permission argument in copyFile, and the mode of os.Chmod.
Perm0644 == 644
Perm0755 == 755

Nil == "nil"

(***************************************************************************)
(* The inputs.                                                             *)
(***************************************************************************)

\* Libraries the resolver can report: a source path, its base name
\* (filepath.Base), and whether os.ReadFile can read it.
Lib(path, base, readable) == [path |-> path, base |-> base, readable |-> readable]

L1c  == Lib("/l1/libc.so.6", "libc.so.6", TRUE)
L1d  == Lib("/l1/ld.so", "ld.so", TRUE)
L2c  == Lib("/l2/libc.so.6", "libc.so.6", TRUE)
L2m  == Lib("/l2/libm.so", "libm.so", TRUE)
Lbad == Lib("/l3/libz.so", "libz.so", FALSE)

Libs == {L1c, L1d, L2c, L2m, Lbad}
LibBases == {l.base : l \in Libs}

\* An argument of the command line: its path, its base name
\* (fileInfo.Name()), what os.Stat finds ("missing", "dir", "regular"),
\* whether the file can be read, whether it is an ELF object (strip accepts
\* it), what running ldd on it gives ("fail": the command could not be run
\* or exited non-zero; "static": it ran and its report holds one of the two
\* static markers; "dynamic": it ran and its report holds neither), and what
\* ldd.FList gives (resolves = FALSE: an error; otherwise the list libs).
Bin(path, name, stat, readable, elf, ldd, resolves, libs) ==
    [path |-> path, name |-> name, stat |-> stat, readable |-> readable,
     elf |-> elf, ldd |-> ldd, resolves |-> resolves, libs |-> libs]

StaticA    == Bin("/s/a", "a", "regular", TRUE, TRUE, "static", FALSE, <<>>)
DynA       == Bin("/d/a", "a", "regular", TRUE, TRUE, "dynamic", TRUE, <<L1c, L1d>>)
DynB       == Bin("/d/b", "b", "regular", TRUE, TRUE, "dynamic", TRUE, <<L2c, L2m>>)
Missing    == Bin("/x/a", "a", "missing", FALSE, FALSE, "fail", FALSE, <<>>)
Directory  == Bin("/x/b", "b", "dir", FALSE, FALSE, "fail", FALSE, <<>>)
Unreadable == Bin("/u/a", "a", "regular", FALSE, TRUE, "fail", FALSE, <<>>)
Script     == Bin("/t/b", "b", "regular", TRUE, FALSE, "fail", FALSE, <<>>)
DynNoRes   == Bin("/r/b", "b", "regular", TRUE, TRUE, "dynamic", FALSE, <<>>)
DynBadLib  == Bin("/q/b", "b", "regular", TRUE, TRUE, "dynamic", TRUE, <<L2m, Lbad>>)

Binaries == {StaticA, DynA, DynB, Missing, Directory, Unreadable, Script,
             DynNoRes, DynBadLib}
Names == {b.name : b \in Binaries}

\* The path exec.LookPath("sharun") returns when the launcher is on PATH.
LauncherPath == "/usr/bin/sharun"

\* Contents strip rejects: the files that are not ELF objects.
NonElfData == {b.path : b \in {x \in Binaries : ~x.elf}}

\* The flags (-strip, -create-links) and the tools PATH offers.
Envs == [strip : BOOLEAN, createLinks : BOOLEAN,
         stripOnPath : BOOLEAN, launcherOnPath : BOOLEAN]

(***************************************************************************)
(* The output tree.                                                        *)
(***************************************************************************)

NoEntry == [kind |-> "none"]
File(data, stripped, mode) ==
    [kind |-> "file", data |-> data, stripped |-> stripped, mode |-> mode]
Symlink(target) == [kind |-> "symlink", target |-> target]

EmptyFS ==
    [dst |-> FALSE, sharun |-> NoEntry,
     binDir |-> FALSE, bin |-> [n \in Names |-> NoEntry],
     sharedBinDir |-> FALSE, sharedBin |-> [n \in Names |-> NoEntry],
     sharedLibDir |-> FALSE, sharedLib |-> [l \in LibBases |-> NoEntry]]

\* A path of the output tree: the directory ("root", "bin", "sharedBin",
\* "sharedLib") and the name in it.
Path(dir, name) == [dir |-> dir, name |-> name]
SharunPath == Path("root", "sharun")

Lookup(fs, p) ==
    CASE p.dir = "root"      -> fs.sharun
      [] p.dir = "bin"       -> fs.bin[p.name]
      [] p.dir = "sharedBin" -> fs.sharedBin[p.name]
      [] p.dir = "sharedLib" -> fs.sharedLib[p.name]

Store(fs, p, e) ==
    CASE p.dir = "root"      -> [fs EXCEPT !.sharun = e]
      [] p.dir = "bin"       -> [fs EXCEPT !.bin[p.name] = e]
      [] p.dir = "sharedBin" -> [fs EXCEPT !.sharedBin[p.name] = e]
      [] p.dir = "sharedLib" -> [fs EXCEPT !.sharedLib[p.name] = e]

\* The file a path names once a symlink at it is followed: the only
\* symlinks of the tree are <dst>/bin/<name> -> ../sharun, which name
\* <dst>/sharun.
Resolve(fs, p) ==
    IF Lookup(fs, p).kind = "symlink" THEN SharunPath ELSE p

\* os.WriteFile(dst, data, 0644): open with O_WRONLY|O_CREATE|O_TRUNC,
\* following a symlink at dst; an existing file keeps its mode, a new one
\* gets perm.
WriteFile(fs, p, data, perm) ==
    LET q == Resolve(fs, p)
        old == Lookup(fs, q)
    IN Store(fs, q, File(data, FALSE,
                         IF old.kind = "file" THEN old.mode ELSE perm))

\* os.Chmod(path, mode): follows a symlink at path.
Chmod(fs, p, mode) ==
    LET q == Resolve(fs, p) IN Store(fs, q, [Lookup(fs, q) EXCEPT !.mode = mode])

\* What reading a path of the tree gives (following a symlink).
ReadAt(fs, p) == Lookup(fs, Resolve(fs, p))

(***************************************************************************)
(* The helpers of processBinary.  Each returns the tree it leaves and the  *)
(* error it returns (Nil: none).                                           *)
(***************************************************************************)

Ret(fs, err) == [fs |-> fs, err |-> err]

\* tryStrip as it would be if the strip tool were looked up before the flag
\* is tested.
tryStrip_LooksUpFirst(fs, p, env) ==
    IF ~env.stripOnPath THEN Ret(fs, "strip command not found")
    ELSE IF ~env.strip THEN Ret(fs, Nil)
    ELSE LET q == Resolve(fs, p)
             f == Lookup(fs, q)
         IN IF f.data \in NonElfData THEN Ret(fs, "failed to strip")
            ELSE Ret(Store(fs, q, [f EXCEPT !.stripped = TRUE]), Nil)

\* tryStrip: with -strip off it does nothing; otherwise exec.LookPath must
\* find strip and the strip command must accept the file.  strip rewrites
\* the file the path names (through a symlink) in place.
tryStrip(fs, p, env) ==
    IF ~env.strip THEN Ret(fs, Nil)
    ELSE IF ~env.stripOnPath THEN Ret(fs, "strip command not found")
    ELSE LET q == Resolve(fs, p)
             f == Lookup(fs, q)
         IN IF f.data \in NonElfData THEN Ret(fs, "failed to strip")
            ELSE Ret(Store(fs, q, [f EXCEPT !.stripped = TRUE]), Nil)

(***************************************************************************)
(* Text.  A string is a sequence of characters, each a string of length    *)
(* one, so that strings.TrimSpace, strings.ToLower and strings.Contains    *)
(* are computed on the characters as the library computes them.            *)
(***************************************************************************)
UpperLetters ==
    <<"A", "B", "C", "D", "E", "F", "G", "H", "I", "J", "K", "L", "M", "N",
      "O", "P", "Q", "R", "S", "T", "U", "V", "W", "X", "Y", "Z">>

LowerLetters ==
    <<"a", "b", "c", "d", "e", "f", "g", "h", "i", "j", "k", "l", "m", "n",
      "o", "p", "q", "r", "s", "t", "u", "v", "w", "x", "y", "z">>

\* The white space of unicode.IsSpace that occurs in the reports.
WhiteSpace == {" ", "\t", "\n", "\r"}

\* unicode.ToLower on one character.
ToLowerChar(c) ==
    IF \E n \in 1..Len(UpperLetters) : UpperLetters[n] = c
    THEN LowerLetters[CHOOSE n \in 1..Len(UpperLetters) : UpperLetters[n] = c]
    ELSE c

\* strings.ToLower.
ToLower(s) == [n \in 1..Len(s) |-> ToLowerChar(s[n])]

\* strings.TrimSpace: s without its leading and trailing white space.
TrimSpace(s) ==
    LET kept == {n \in 1..Len(s) : s[n] \notin WhiteSpace}
    IN IF kept = {} THEN <<>>
       ELSE SubSeq(s, CHOOSE n \in kept : \A m \in kept : n <= m,
                      CHOOSE n \in kept : \A m \in kept : m <= n)

\* strings.Contains.
Contains(s, substr) ==
    \E n \in 0..(Len(s) - Len(substr)) :
        SubSeq(s, n + 1, n + Len(substr)) = substr

\* The two markers of line 57.
NotADynamicExecutable ==
    <<"n", "o", "t", " ", "a", " ", "d", "y", "n", "a", "m", "i", "c", " ",
      "e", "x", "e", "c", "u", "t", "a", "b", "l", "e">>

NotAValidDynamicProgram ==
    <<"n", "o", "t", " ", "a", " ", "v", "a", "l", "i", "d", " ", "d", "y",
      "n", "a", "m", "i", "c", " ", "p", "r", "o", "g", "r", "a", "m">>

\* One run of ldd: whether the command failed, and its combined output.
LddRun(failed, output) == [failed |-> failed, output |-> output]

\* What ldd prints for the static binaries and for the dynamic ones.
StaticReport ==
    <<"\t", "n", "o", "t", " ", "a", " ", "d", "y", "n", "a", "m", "i",
      "c", " ", "e", "x", "e", "c", "u", "t", "a", "b", "l", "e", "\n">>

DynamicReport ==
    <<"\t", "l", "i", "b", "c", ".", "s", "o", ".", "6", " ", "=", ">",
      " ", "/", "l", "i", "b", "/", "l", "i", "b", "c", ".", "s", "o", ".",
      "6", " ", "(", "0", "x", "1", ")", "\n">>

\* exec.Command("ldd", binaryPath).CombinedOutput() on the binaries of the
\* model: the command fails, or it prints one of the two reports.
CombinedOutput(b) ==
    IF b.ldd = "fail" THEN LddRun(TRUE, <<>>)
    ELSE IF b.ldd = "static" THEN LddRun(FALSE, StaticReport)
    ELSE LddRun(FALSE, DynamicReport)

\* Lines 49-60 as they would be without strings.ToLower.
classifyReport_CaseSensitive(run) ==
    IF run.failed THEN [dynamic |-> FALSE, err |-> Nil]
    ELSE LET outputStr == TrimSpace(run.output)
         IN IF \/ Contains(outputStr, NotADynamicExecutable)
               \/ Contains(outputStr, NotAValidDynamicProgram)
            THEN [dynamic |-> FALSE, err |-> Nil]
            ELSE [dynamic |-> TRUE, err |-> Nil]

\* Lines 49-60: what isDynamicExecutable returns for a run of ldd: (false,
\* nil) when the command failed; else the output is trimmed and lowered,
\* and a marker in it gives (false, nil), no marker (true, nil).
classifyReport(run) ==
    IF run.failed THEN [dynamic |-> FALSE, err |-> Nil]
    ELSE LET outputStr   == TrimSpace(run.output)
             outputLower == ToLower(outputStr)
         IN IF \/ Contains(outputLower, NotADynamicExecutable)
               \/ Contains(outputLower, NotAValidDynamicProgram)
            THEN [dynamic |-> FALSE, err |-> Nil]
            ELSE [dynamic |-> TRUE, err |-> Nil]

\* isDynamicExecutable as it would be if the error of ldd were returned.
isDynamicExecutable_PropagatesError(b) ==
    IF b.ldd = "fail" THEN [dynamic |-> FALSE, err |-> "ldd failed"]
    ELSE classifyReport(CombinedOutput(b))

\* isDynamicExecutable(binaryPath): runs ldd on the binary and classifies
\* the run.
isDynamicExecutable(b) == classifyReport(CombinedOutput(b))

\* copyFile(src, dst): os.ReadFile(src), then os.WriteFile(dst, input, 0644).
\* src is given by whether it can be read and by its content.
copyFile(fs, readable, data, p) ==
    IF ~readable THEN Ret(fs, "read failed")
    ELSE Ret(WriteFile(fs, p, data, Perm0644), Nil)

\* createSymlink as it would be if it replaced what it finds at dst (ln -sf).
createSymlink_Overwrites(fs, target, p) ==
    Ret(Store(fs, p, Symlink(target)), Nil)

\* createSymlink(src, dst): os.Symlink, which fails when anything exists
\* at dst.
createSymlink(fs, target, p) ==
    IF Lookup(fs, p).kind # "none" THEN Ret(fs, "file exists")
    ELSE Ret(Store(fs, p, Symlink(target)), Nil)

\* findDynExec: exec.LookPath("sharun").
findDynExec(env) ==
    IF env.launcherOnPath THEN [path |-> LauncherPath, err |-> Nil]
    ELSE [path |-> "", err |-> "sharun not found in PATH"]

\* getLibs: ldd.FList(binaryPath).
getLibs(b) ==
    IF b.resolves THEN [libs |-> b.libs, err |-> Nil]
    ELSE [libs |-> <<>>, err |-> "ldd.FList failed"]

(***************************************************************************)
(* processBinary.  A run of it is the record st: the tree so far, the      *)
(* error returned (Nil while none), and the operations on the output tree  *)
(* it has attempted, in order, each with the path it was given and whether *)
(* it succeeded.  A step applied to a run that has already returned an     *)
(* error leaves it as it is: that is the early return.                     *)
(***************************************************************************)

Step(op, arg, ok) == [op |-> op, arg |-> arg, ok |-> ok]

Then(st, op, arg, r) ==
    [st EXCEPT !.fs = r.fs, !.err = r.err,
               !.steps = Append(@, Step(op, arg, r.err = Nil))]

\* installStatic as it would be without the os.Chmod of lines 120-122.
installStatic_NoChmod(st, b, env) ==
    LET p  == Path("bin", b.name)
        s1 == Then(st, "mkdir", "bin", Ret([st.fs EXCEPT !.binDir = TRUE], Nil))
        s2 == IF s1.err # Nil THEN s1
              ELSE Then(s1, "copy_static", b.name,
                        copyFile(s1.fs, b.readable, b.path, p))
        s3 == IF s2.err # Nil THEN s2
              ELSE Then(s2, "strip_static", b.name, tryStrip(s2.fs, p, env))
    IN s3

\* Lines 109-124: the static path.
installStatic(st, b, env) ==
    LET p  == Path("bin", b.name)
        s1 == Then(st, "mkdir", "bin", Ret([st.fs EXCEPT !.binDir = TRUE], Nil))
        s2 == IF s1.err # Nil THEN s1
              ELSE Then(s1, "copy_static", b.name,
                        copyFile(s1.fs, b.readable, b.path, p))
        s3 == IF s2.err # Nil THEN s2
              ELSE Then(s2, "strip_static", b.name, tryStrip(s2.fs, p, env))
        s4 == IF s3.err # Nil THEN s3
              ELSE Then(s3, "chmod_static", b.name,
                        Ret(Chmod(s3.fs, p, Perm0755), Nil))
    IN s4

\* Lines 128-139: find the launcher, copy it to <dst>/sharun, chmod it.
installLauncher(st, env) ==
    LET found == findDynExec(env)
        s1 == Then(st, "find_launcher", "sharun", Ret(st.fs, found.err))
        s2 == IF s1.err # Nil THEN s1
              ELSE Then(s1, "copy_launcher", "sharun",
                        copyFile(s1.fs, TRUE, found.path, SharunPath))
        s3 == IF s2.err # Nil THEN s2
              ELSE Then(s2, "chmod_launcher", "sharun",
                        Ret(Chmod(s2.fs, SharunPath, Perm0755), Nil))
    IN s3

\* Lines 141-151 as they would be if the symlink were made whatever
\* -create-links says.
linkBinary_IgnoresFlag(st, b, env) ==
    LET s1 == IF st.err # Nil THEN st
              ELSE Then(st, "mkdir", "bin", Ret([st.fs EXCEPT !.binDir = TRUE], Nil))
        s2 == IF s1.err # Nil THEN s1
              ELSE Then(s1, "symlink", b.name,
                        createSymlink(s1.fs, "../sharun", Path("bin", b.name)))
    IN s2

\* Lines 141-151: make <dst>/bin and, with -create-links, the symlink.
linkBinary(st, b, env) ==
    LET s1 == IF st.err # Nil THEN st
              ELSE Then(st, "mkdir", "bin", Ret([st.fs EXCEPT !.binDir = TRUE], Nil))
        s2 == IF s1.err # Nil \/ ~env.createLinks THEN s1
              ELSE Then(s1, "symlink", b.name,
                        createSymlink(s1.fs, "../sharun", Path("bin", b.name)))
    IN s2

\* Lines 153-171: make shared/bin and shared/lib, copy the binary to
\* shared/bin/<name>, strip it.
installSharedBinary(st, b, env) ==
    LET p  == Path("sharedBin", b.name)
        s1 == IF st.err # Nil THEN st
              ELSE Then(st, "mkdir", "shared/bin",
                        Ret([st.fs EXCEPT !.sharedBinDir = TRUE], Nil))
        s2 == IF s1.err # Nil THEN s1
              ELSE Then(s1, "mkdir", "shared/lib",
                        Ret([s1.fs EXCEPT !.sharedLibDir = TRUE], Nil))
        s3 == IF s2.err # Nil THEN s2
              ELSE Then(s2, "copy_shared", b.name,
                        copyFile(s2.fs, b.readable, b.path, p))
        s4 == IF s3.err # Nil THEN s3
              ELSE Then(s3, "strip_shared", b.name, tryStrip(s3.fs, p, env))
    IN s4

\* Lines 181-187: the body of the loop over libPaths, for one library.
installLibrary(st, lib, env) ==
    LET p  == Path("sharedLib", lib.base)
        s1 == Then(st, "copy_lib", lib.path,
                   copyFile(st.fs, lib.readable, lib.path, p))
        s2 == IF s1.err # Nil THEN s1
              ELSE Then(s1, "strip_lib", lib.path, tryStrip(s1.fs, p, env))
    IN s2

\* The loop over libPaths as it would be if it returned after its first
\* iteration.
installLibraries_FirstOnly(st, libs, env) ==
    IF st.err # Nil \/ libs = <<>> THEN st
    ELSE installLibrary(st, Head(libs), env)

\* Lines 180-188: the loop over libPaths, which returns at the first error.
RECURSIVE installLibraries(_, _, _)
installLibraries(st, libs, env) ==
    IF st.err # Nil \/ libs = <<>> THEN st
    ELSE installLibraries(installLibrary(st, Head(libs), env), Tail(libs), env)

\* Lines 174-188: resolve the dependencies and install each.
resolveAndInstall(st, b, env) ==
    LET got == getLibs(b)
        s1 == IF st.err # Nil THEN st
              ELSE Then(st, "resolve", b.name, Ret(st.fs, got.err))
    IN installLibraries(s1, got.libs, env)

\* The dynamic path as it would be if the symlink were made before the
\* launcher is found and copied.
installDynamic_LinksFirst(st, b, env) ==
    LET linked == linkBinary(st, b, env)
    IN IF linked.err # Nil THEN linked
       ELSE resolveAndInstall(
                installSharedBinary(installLauncher(linked, env), b, env), b, env)

\* The dynamic path as it would be if the binary were copied to shared/bin
\* before the symlink is made.
installDynamic_CopiesBeforeLink(st, b, env) ==
    resolveAndInstall(
        linkBinary(installSharedBinary(installLauncher(st, env), b, env), b, env),
        b, env)

\* Lines 127-190: the dynamic path.
installDynamic(st, b, env) ==
    resolveAndInstall(
        installSharedBinary(linkBinary(installLauncher(st, env), b, env), b, env),
        b, env)

\* processBinary as it would be if the destination directory were made
\* before the os.Stat of the input.
processBinary_MkdirFirst(fs, b, env) ==
    LET made == [fs EXCEPT !.dst = TRUE]
        st0  == [fs |-> made, err |-> Nil, steps |-> <<>>, class |-> "none"]
    IN IF b.stat = "missing"
         THEN [st0 EXCEPT !.err = "no such file or directory"]
       ELSE IF b.stat # "regular"
         THEN [st0 EXCEPT !.err = "skipped: not a regular file"]
       ELSE LET cls == isDynamicExecutable(b) IN
         IF cls.err # Nil THEN [st0 EXCEPT !.err = cls.err]
         ELSE LET st1 == Then([st0 EXCEPT !.class = IF cls.dynamic THEN "dynamic"
                                                     ELSE "static"],
                              "mkdir", "dst", Ret(made, Nil))
              IN IF ~cls.dynamic THEN installStatic(st1, b, env)
                 ELSE installDynamic(st1, b, env)

\* processBinary(binaryPath) on the tree fs: what it returns and leaves.
\* class is how the binary was classified ("none" when it was not).
processBinary(fs, b, env) ==
    LET st0 == [fs |-> fs, err |-> Nil, steps |-> <<>>, class |-> "none"]
    IN IF b.stat = "missing"
         THEN [st0 EXCEPT !.err = "no such file or directory"]
       ELSE IF b.stat # "regular"
         THEN [st0 EXCEPT !.err = "skipped: not a regular file"]
       ELSE LET cls == isDynamicExecutable(b) IN
         IF cls.err # Nil THEN [st0 EXCEPT !.err = cls.err]
         ELSE LET st1 == Then([st0 EXCEPT !.class = IF cls.dynamic THEN "dynamic"
                                                     ELSE "static"],
                              "mkdir", "dst", Ret([fs EXCEPT !.dst = TRUE], Nil))
              IN IF ~cls.dynamic THEN installStatic(st1, b, env)
                 ELSE installDynamic(st1, b, env)

(***************************************************************************)
(* main.  args is flag.Args(), env the flags and PATH; pc is where main    *)
(* is ("start": before the check of the argument list, "loop": in the      *)
(* loop, about to take argument i, "exited": the process has ended, with   *)
(* exitCode).  stdout and stderr are what fmt.Print* and log.Printf have   *)
(* written.  calls is a history of the processBinary calls made: for each, *)
(* its argument, the tree before it, and what it returned.                 *)
(***************************************************************************)
VARIABLES args, env, pc, i, fs, stdout, stderr, exitCode, calls

\* The classifier on its own: probe is a run of ldd, verdict what
\* isDynamicExecutable returned for it (NoVerdict before the call).
VARIABLES probe, verdict

NoVerdict == [dynamic |-> FALSE, err |-> "not called"]

probeVars == <<probe, verdict>>

\* The classifier is not called on its own.
ProbeIdle ==
    /\ probe = LddRun(FALSE, <<>>)
    /\ verdict = NoVerdict

(***************************************************************************)
(* pelfd (cmd/pelfd/main.go).  The daemon scans the directories of its     *)
(* configuration for bundles, extracts the metadata files of each new or   *)
(* changed bundle into the icon and application directories, and keeps a   *)
(* tracker from bundle paths to entries, saved in the configuration file.  *)
(***************************************************************************)

\* How many scans and how many changes of the scanned directory a
\* behaviour has at most.
MaxScans == 3
MaxChanges == 3

\* The paths the Glob of line 135 can match, in the order in which the loops
\* of lines 130-141 visit them (extension ".AppBundle" before ".blob").
ScanOrder == <<"/P/x.AppBundle", "/P/y.blob">>

BundlePaths == {ScanOrder[n] : n \in 1..Len(ScanOrder)}

\* strings.TrimSuffix(filepath.Base(path), filepath.Ext(path)).
baseName(path) == IF path = "/P/x.AppBundle" THEN "x" ELSE "y"

\* The metadata files a bundle can hold, and what a bundle file can be: its
\* content decides which metadata it gives when run with --pbundle_*.
Kinds == {"png", "xpm", "svg", "desktop"}

Contents == {"c0", "c1", "c2", "c3"}

MetaOf(content) ==
    IF content = "c0" THEN {}
    ELSE IF content = "c1" THEN {"svg"}
    ELSE IF content = "c2" THEN {"png", "desktop"}
    ELSE Kinds

\* A bundle path on disk: nothing, or a file with content and mode.
Absent == [present |-> FALSE]

Bundle(content, exec) == [present |-> TRUE, content |-> content, exec |-> exec]

BundleStates == {Bundle(c, x) : c \in Contents, x \in BOOLEAN}

\* Where a metadata file of a bundle goes: filepath.Join(iconPath,
\* baseName+".png") and the like.
OutputFile(base, kind) ==
    [dir |-> IF kind = "desktop" THEN "applications" ELSE "icons",
     name |-> base, ext |-> kind]

OutputFiles == {OutputFile(baseName(p), k) : p \in BundlePaths, k \in Kinds}

NoFile == [exists |-> FALSE]

\* A metadata file as the bundle bundle printed it.
Extracted(bundle) ==
    [exists |-> TRUE, from |-> bundle,
     execLine |-> "bundled", iconLine |-> "bundled", tryExecLine |-> "bundled"]

\* The tracker: a path is not a key (Untracked), or maps to nil, or maps to
\* a BundleEntry.  An empty string field of an entry is NoPath.
Untracked == [tracked |-> FALSE]

NilEntry == [tracked |-> TRUE, nil |-> TRUE]

NoPath == [dir |-> "", name |-> "", ext |-> ""]

BundleEntry(path, sha, png, xpm, svg, desktop) ==
    [tracked |-> TRUE, nil |-> FALSE, path |-> path, sha |-> sha,
     png |-> png, xpm |-> xpm, svg |-> svg, desktop |-> desktop]

Keys(tracker) == {p \in BundlePaths : tracker[p].tracked}

\* loadConfig when there is no configuration file: the defaults, with an
\* empty tracker.
DefaultConfig ==
    [options |-> [correctDesktopFiles |-> TRUE],
     tracker |-> [p \in BundlePaths |-> Untracked]]

\* disk is the scanned directory, files the icon and application
\* directories, config the daemon's Config value, configFile what the
\* configuration file holds, existing the set built by the last scan,
\* changed whether the last scan saved the configuration; scans and changes
\* count the scans made and the changes made to the directory.
VARIABLES disk, files, config, configFile, existing, changed, scans, changes

\* What the last scan of the running daemon did: processed is the set of
\* the bundles it called processBundles on, observed the scanned directory
\* as it saw it (NotScanned when the daemon has not scanned since its start).
VARIABLES processed, observed

NotScanned == [scanned |-> FALSE]

\* The paths for which some scan, of this run of the daemon or of an
\* earlier one, set a nil entry, and whose file has been there ever since.
VARIABLES markedNil

pelfdVars ==
    <<disk, files, config, configFile, existing, changed, scans, changes,
      processed, observed, markedNil>>

\* The daemon is not running: nothing is scanned, nothing is on disk.
PelfdIdle ==
    /\ disk = [p \in BundlePaths |-> Absent]
    /\ files = [f \in OutputFiles |-> NoFile]
    /\ config = DefaultConfig
    /\ configFile = DefaultConfig
    /\ existing = {}
    /\ changed = FALSE
    /\ processed = {}
    /\ observed = NotScanned
    /\ markedNil = {}
    /\ scans = 0
    /\ changes = 0

\* The variables of the batch, and those outside it.
batchVars == <<args, env, pc, i, fs, stdout, stderr, exitCode, calls>>

others == <<probeVars, pelfdVars>>

OthersIdle == ProbeIdle /\ PelfdIdle

vars == <<args, env, pc, i, fs, stdout, stderr, exitCode, calls, others>>

ArgLists == UNION {[1..n -> Binaries] : n \in 0..MaxBatch}

Init ==
    /\ args \in ArgLists
    /\ env \in Envs
    /\ pc = "start"
    /\ i = 1
    /\ fs = EmptyFS
    /\ stdout = <<>>
    /\ stderr = <<>>
    /\ exitCode = -1
    /\ calls = <<>>
    /\ OthersIdle

\* Lines 205-209: no argument: print the usage error and os.Exit(1).
NoArguments ==
    /\ pc = "start"
    /\ Len(args) = 0
    /\ stdout' = Append(stdout, "Error: Specify the ELF binary executable!")
    /\ exitCode' = 1
    /\ pc' = "exited"
    /\ UNCHANGED <<args, env, i, fs, stderr, calls>>
    /\ UNCHANGED others

\* Lines 205-215: some argument: enter the loop.  (Lines 211-213 restore
\* the default destination when -dst-dir is empty; the model has the one
\* destination <dst>.)
EnterLoop ==
    /\ pc = "start"
    /\ Len(args) > 0
    /\ pc' = "loop"
    /\ UNCHANGED <<args, env, i, fs, stdout, stderr, exitCode, calls>>
    /\ UNCHANGED others

\* The log record as it would be if it named no binary.
LogLine_NoPath(b, err) == [binary |-> "", err |-> err]

\* What one iteration of the loop (lines 215-219) appends to stderr.
LogLine(b, err) == [binary |-> b.path, err |-> err]

\* What processBinary prints on success (lines 123, 189).
Processed(b, class) == [processed |-> class, name |-> b.name]

\* The iteration as it would be if an error ended the batch (log.Fatalf).
ProcessNext_AbortsOnError ==
    /\ pc = "loop"
    /\ i <= Len(args)
    /\ LET b == args[i]
           r == processBinary(fs, b, env)
       IN /\ fs' = r.fs
          /\ stderr' = IF r.err # Nil THEN Append(stderr, LogLine(b, r.err))
                       ELSE stderr
          /\ stdout' = IF r.err = Nil THEN Append(stdout, Processed(b, r.class))
                       ELSE stdout
          /\ calls' = Append(calls, [bin |-> b, pre |-> fs, class |-> r.class,
                                     err |-> r.err, steps |-> r.steps])
          /\ pc' = IF r.err # Nil THEN "exited" ELSE pc
          /\ exitCode' = IF r.err # Nil THEN 1 ELSE exitCode
    /\ i' = i + 1
    /\ UNCHANGED <<args, env>>
    /\ UNCHANGED others

\* The iteration as it would be if the loop ran over the arguments from the
\* last to the first.
ProcessNext_LastFirst ==
    /\ pc = "loop"
    /\ i <= Len(args)
    /\ LET b == args[Len(args) + 1 - i]
           r == processBinary(fs, b, env)
       IN /\ fs' = r.fs
          /\ stderr' = IF r.err # Nil THEN Append(stderr, LogLine(b, r.err))
                       ELSE stderr
          /\ stdout' = IF r.err = Nil THEN Append(stdout, Processed(b, r.class))
                       ELSE stdout
          /\ calls' = Append(calls, [bin |-> b, pre |-> fs, class |-> r.class,
                                     err |-> r.err, steps |-> r.steps])
    /\ i' = i + 1
    /\ UNCHANGED <<args, env, pc, exitCode>>
    /\ UNCHANGED others

\* Lines 215-219: one iteration: processBinary on args[i], its error logged.
ProcessNext ==
    /\ pc = "loop"
    /\ i <= Len(args)
    /\ LET b == args[i]
           r == processBinary(fs, b, env)
       IN /\ fs' = r.fs
          /\ stderr' = IF r.err # Nil THEN Append(stderr, LogLine(b, r.err))
                       ELSE stderr
          /\ stdout' = IF r.err = Nil THEN Append(stdout, Processed(b, r.class))
                       ELSE stdout
          /\ calls' = Append(calls, [bin |-> b, pre |-> fs, class |-> r.class,
                                     err |-> r.err, steps |-> r.steps])
    /\ i' = i + 1
    /\ UNCHANGED <<args, env, pc, exitCode>>
    /\ UNCHANGED others

\* Line 220: the loop is over and main returns: the process exits with 0.
Return ==
    /\ pc = "loop"
    /\ i > Len(args)
    /\ exitCode' = 0
    /\ pc' = "exited"
    /\ UNCHANGED <<args, env, i, fs, stdout, stderr, calls>>
    /\ UNCHANGED others

Next == NoArguments \/ EnterLoop \/ ProcessNext \/ Return

Spec == Init /\ [][Next]_vars

\* main is one thread that never waits: as long as the process has not
\* exited, its position (pc, i) moves on.  Every step of Next changes the
\* position, and some step of Next is possible wherever pc # "exited", so
\* this is weak fairness of Next, stated on the position alone.
Advance ==
    /\ pc # "exited"
    /\ \E p \in {"start", "loop", "exited"}, j \in 1..(MaxBatch + 2) :
           pc' = p /\ i' = j

FairSpec == Spec /\ WF_<<pc, i>>(Advance)

(***************************************************************************)
(* The classifier on its own.  A run of ldd is given (the command failed   *)
(* or not, and its output); Classify is one call of isDynamicExecutable    *)
(* on it.  No batch runs.                                                  *)
(***************************************************************************)
\* The reports the classifier is applied to: a prefix, a body and a suffix.
\* The bodies are the markers in several spellings, near misses of them,
\* and reports of other kinds.
BodyExecutable ==
    <<"n", "o", "t", " ", "a", " ", "d", "y", "n", "a", "m", "i", "c", " ",
      "e", "x", "e", "c", "u", "t", "a", "b", "l", "e">>

BodyExecutableCapital ==
    <<"N", "o", "t", " ", "a", " ", "d", "y", "n", "a", "m", "i", "c", " ",
      "e", "x", "e", "c", "u", "t", "a", "b", "l", "e">>

BodyExecutableUpper ==
    <<"N", "O", "T", " ", "A", " ", "D", "Y", "N", "A", "M", "I", "C", " ",
      "E", "X", "E", "C", "U", "T", "A", "B", "L", "E">>

BodyProgram ==
    <<"n", "o", "t", " ", "a", " ", "v", "a", "l", "i", "d", " ", "d", "y",
      "n", "a", "m", "i", "c", " ", "p", "r", "o", "g", "r", "a", "m">>

BodyProgramCapital ==
    <<"N", "o", "t", " ", "a", " ", "v", "a", "l", "i", "d", " ", "d", "y",
      "n", "a", "m", "i", "c", " ", "p", "r", "o", "g", "r", "a", "m">>

BodyProgramMixed ==
    <<"N", "o", "t", " ", "A", " ", "V", "a", "l", "i", "d", " ", "D", "y",
      "n", "a", "m", "i", "c", " ", "P", "r", "o", "g", "r", "a", "m">>

BodyTwoSpaces ==
    <<"n", "o", "t", " ", "a", " ", "d", "y", "n", "a", "m", "i", "c", " ",
      " ", "e", "x", "e", "c", "u", "t", "a", "b", "l", "e">>

BodyTruncated ==
    <<"n", "o", "t", " ", "a", " ", "d", "y", "n", "a", "m", "i", "c">>

BodyCrossed ==
    <<"n", "o", "t", " ", "a", " ", "v", "a", "l", "i", "d", " ", "d", "y",
      "n", "a", "m", "i", "c", " ", "e", "x", "e", "c", "u", "t", "a", "b",
      "l", "e">>

BodySplit ==
    <<"n", "o", "t", " ", "a", " ", "d", "y", "n", "a", "m", "i", "c",
      "\n", "e", "x", "e", "c", "u", "t", "a", "b", "l", "e">>

BodyStaticallyLinked ==
    <<"s", "t", "a", "t", "i", "c", "a", "l", "l", "y", " ", "l", "i", "n",
      "k", "e", "d">>

BodyListing ==
    <<"l", "i", "b", "c", ".", "s", "o", ".", "6", " ", "=", ">", " ", "/",
      "l", "i", "b", "/", "l", "i", "b", "c", ".", "s", "o", ".", "6", " ",
      "(", "0", "x", "1", ")">>

Bodies ==
    {<<>>, BodyExecutable,
     BodyExecutableCapital,
     BodyExecutableUpper,
     BodyProgram,
     BodyProgramCapital,
     BodyProgramMixed,
     BodyTwoSpaces,
     BodyTruncated,
     BodyCrossed,
     BodySplit,
     BodyStaticallyLinked,
     BodyListing}

PrefixPath ==
    <<"/", "s", "/", "a", ":", " ">>

Prefixes == {<<>>, <<"\t">>, PrefixPath}

Suffixes == {<<>>, <<"\n">>, <<" ", "\n">>}

Reports == {p \o b \o s : p \in Prefixes, b \in Bodies, s \in Suffixes}

BatchIdle ==
    /\ args = <<>>
    /\ env = [strip |-> FALSE, createLinks |-> TRUE,
              stripOnPath |-> TRUE, launcherOnPath |-> TRUE]
    /\ pc = "start"
    /\ i = 1
    /\ fs = EmptyFS
    /\ stdout = <<>>
    /\ stderr = <<>>
    /\ exitCode = -1
    /\ calls = <<>>

ClassifyInit ==
    /\ BatchIdle
    /\ PelfdIdle
    /\ probe \in {LddRun(f, r) : f \in BOOLEAN, r \in Reports}
    /\ verdict = NoVerdict

Classify ==
    /\ verdict = NoVerdict
    /\ verdict' = classifyReport(probe)
    /\ UNCHANGED <<batchVars, probe, pelfdVars>>

ClassifyNext == Classify

ClassifySpec == ClassifyInit /\ [][ClassifyNext]_vars

(***************************************************************************)
(* pelfd: the scan.                                                        *)
(***************************************************************************)

\* computeSHA(path): the SHA-256 of the content of the file.
computeSHA(dsk, path) == [sha256 |-> dsk[path].content]

\* isExecutable(path): some execute bit of the mode is set.
isExecutable(dsk, path) == dsk[path].exec

\* executeBundle(bundle, param, outputFile): runs the bundle; when it gives
\* no such metadata the result is ""; else the output is written to
\* outputFile, which is the result.
executeBundle(fls, dsk, bundle, kind) ==
    LET outputFile == OutputFile(baseName(bundle), kind)
    IN IF kind \notin MetaOf(dsk[bundle].content)
       THEN [files |-> fls, path |-> NoPath]
       ELSE [files |-> [fls EXCEPT ![outputFile] = Extracted(bundle)],
             path |-> outputFile]

\* updateDesktopFile(content, bundlePath, entry): the Exec line becomes the
\* bundle's path (the bundle is not on PATH), the Icon line the base name of
\* the first of entry.Png, entry.Svg, entry.Xpm that is set, the TryExec
\* line the base name of the bundle.
updateDesktopFile(content, bundlePath, entry) ==
    LET icon == IF entry.png # NoPath THEN entry.png
                ELSE IF entry.svg # NoPath THEN entry.svg
                ELSE IF entry.xpm # NoPath THEN entry.xpm
                ELSE NoPath
    IN [content EXCEPT !.execLine = bundlePath,
                       !.iconLine = IF icon # NoPath THEN icon ELSE @,
                       !.tryExecLine = bundlePath]

\* The run of a scan: the tracker, the output files, and the flag changed.
Run(tracker, fls, chg) ==
    [tracker |-> tracker, files |-> fls, changed |-> chg, processed |-> {}]

\* processBundles(path, sha, entries, iconPath, appPath, cfg): extracts the
\* four metadata files, records the entry (nil when neither png, xpm nor
\* desktop was extracted), and corrects the .desktop file of that base name
\* if there is one.
processBundles(run, dsk, path, sha, options) ==
    LET png     == executeBundle(run.files, dsk, path, "png")
        xpm     == executeBundle(png.files, dsk, path, "xpm")
        svg     == executeBundle(xpm.files, dsk, path, "svg")
        desktop == executeBundle(svg.files, dsk, path, "desktop")
        entry   == BundleEntry(path, sha, png.path, xpm.path, svg.path,
                               desktop.path)
        kept    == IF entry.png # NoPath \/ entry.xpm # NoPath
                      \/ entry.desktop # NoPath
                   THEN entry ELSE NilEntry
        desktopPath == OutputFile(baseName(path), "desktop")
        written == desktop.files
        corrected ==
            IF written[desktopPath].exists /\ options.correctDesktopFiles
            THEN [written EXCEPT ![desktopPath] =
                      updateDesktopFile(@, path, entry)]
            ELSE written
    IN [run EXCEPT !.tracker[path] = kept, !.files = corrected]

\* Lines 141-165 as they would be if a nil entry were treated like a path
\* that is not tracked.
visitBundle_RetriesNil(run, dsk, bundle, options) ==
    LET sha   == computeSHA(dsk, bundle)
        entry == run.tracker[bundle]
    IN IF entry.tracked /\ ~entry.nil /\ entry.sha = sha THEN run
       ELSE IF isExecutable(dsk, bundle)
            THEN [processBundles(run, dsk, bundle, sha, options)
                      EXCEPT !.changed = TRUE,
                             !.processed = @ \cup {bundle}]
            ELSE [run EXCEPT !.tracker[bundle] = NilEntry]

\* Lines 141-165: the body of the loop over the bundles found, for one.
visitBundle(run, dsk, bundle, options) ==
    LET sha   == computeSHA(dsk, bundle)
        entry == run.tracker[bundle]
    IN IF entry.tracked /\ entry.nil THEN run
       ELSE IF entry.tracked /\ entry.sha = sha THEN run
       ELSE IF isExecutable(dsk, bundle)
            THEN [processBundles(run, dsk, bundle, sha, options)
                      EXCEPT !.changed = TRUE,
                             !.processed = @ \cup {bundle}]
            ELSE [run EXCEPT !.tracker[bundle] = NilEntry]

\* cleanupBundle(path, entries, iconDir, appDir): nothing for a nil entry;
\* else the png, the xpm and the desktop file of the base name are removed
\* and the key is deleted.
cleanupBundle(run, path) ==
    LET entry == run.tracker[path]
        filesToRemove == {OutputFile(baseName(path), k) :
                              k \in {"png", "xpm", "desktop"}}
    IN IF ~entry.tracked \/ entry.nil THEN run
       ELSE [run EXCEPT
                !.files = [f \in OutputFiles |->
                              IF f \in filesToRemove THEN NoFile ELSE @[f]],
                !.tracker[path] = Untracked]

\* Lines 130-167: the loops over directories, extensions and bundles found.
RECURSIVE visitBundles(_, _, _, _)
visitBundles(run, dsk, bundles, options) ==
    IF bundles = <<>> THEN run
    ELSE visitBundles(
             IF dsk[Head(bundles)].present
             THEN visitBundle(run, dsk, Head(bundles), options)
             ELSE run,
             dsk, Tail(bundles), options)

\* Lines 169-175: every key that was not found is cleaned up, and changed
\* is set.  (The order of the range over the map does not matter: the
\* clean-ups of different paths touch different files and keys.)
RECURSIVE cleanupMissing(_, _, _)
cleanupMissing(run, found, paths) ==
    IF paths = <<>> THEN run
    ELSE cleanupMissing(
             IF run.tracker[Head(paths)].tracked /\ Head(paths) \notin found
             THEN [cleanupBundle(run, Head(paths)) EXCEPT !.changed = TRUE]
             ELSE run,
             found, Tail(paths))

\* processBundle(config, homeDir): one scan.
processBundle(cfg, dsk, fls) ==
    LET found   == {p \in BundlePaths : dsk[p].present}
        visited == visitBundles(Run(cfg.tracker, fls, FALSE), dsk, ScanOrder,
                                cfg.options)
        cleaned == cleanupMissing(visited, found, ScanOrder)
    IN [config |-> [cfg EXCEPT !.tracker = cleaned.tracker],
        files |-> cleaned.files,
        existing |-> found,
        changed |-> cleaned.changed,
        processed |-> cleaned.processed]

\* Lines 71-75: one turn of the daemon's loop: processBundle, which saves
\* the configuration when changed is set (lines 177-180).
Scan ==
    /\ scans < MaxScans
    /\ LET r == processBundle(config, disk, files)
       IN /\ config' = r.config
          /\ files' = r.files
          /\ existing' = r.existing
          /\ changed' = r.changed
          /\ processed' = r.processed
          /\ markedNil' = markedNil \cup
                 {p \in r.existing : r.config.tracker[p] = NilEntry}
          /\ configFile' = IF r.changed THEN r.config ELSE configFile
    /\ observed' = disk
    /\ scans' = scans + 1
    /\ UNCHANGED <<disk, changes>>
    /\ UNCHANGED <<batchVars, probeVars>>

\* Between two scans somebody puts a bundle file at a path, or replaces the
\* one there, or changes its mode.
PutBundle ==
    /\ changes < MaxChanges
    /\ \E p \in BundlePaths, b \in BundleStates :
           /\ disk[p] # b
           /\ disk' = [disk EXCEPT ![p] = b]
    /\ changes' = changes + 1
    /\ UNCHANGED <<files, config, configFile, existing, changed, scans,
                   processed, observed, markedNil>>
    /\ UNCHANGED <<batchVars, probeVars>>

\* Between two scans somebody removes a bundle file.
RemoveBundle ==
    /\ changes < MaxChanges
    /\ \E p \in BundlePaths :
           /\ disk[p].present
           /\ disk' = [disk EXCEPT ![p] = Absent]
           /\ markedNil' = markedNil \ {p}
    /\ changes' = changes + 1
    /\ UNCHANGED <<files, config, configFile, existing, changed, scans,
                   processed, observed>>
    /\ UNCHANGED <<batchVars, probeVars>>

\* The daemon is started again: main calls loadConfig (lines 60, 78-108),
\* which decodes the configuration file.
Restart ==
    /\ config' = configFile
    /\ observed' = NotScanned
    /\ UNCHANGED <<disk, files, configFile, existing, changed, scans, changes,
                   processed, markedNil>>
    /\ UNCHANGED <<batchVars, probeVars>>

PelfdInit ==
    /\ BatchIdle
    /\ ProbeIdle
    /\ disk \in [BundlePaths -> BundleStates \cup {Absent}]
    /\ files = [f \in OutputFiles |-> NoFile]
    /\ config = DefaultConfig
    /\ configFile = DefaultConfig
    /\ existing = {}
    /\ changed = FALSE
    /\ processed = {}
    /\ observed = NotScanned
    /\ markedNil = {}
    /\ scans = 0
    /\ changes = 0

PelfdNext ==
    \/ Scan
    \/ PutBundle
    \/ RemoveBundle
    \/ Restart

PelfdSpec == PelfdInit /\ [][PelfdNext]_vars

(***************************************************************************)
(* Vocabulary of the properties.                                           *)
(***************************************************************************)

\* The tree call k left: the tree the next call found, or the current one.
Post(k) == IF k < Len(calls) THEN calls[k + 1].pre ELSE fs

\* The operations on the output tree of the first k calls, in order.
RECURSIVE StepsUpTo(_)
StepsUpTo(k) == IF k = 0 THEN <<>> ELSE StepsUpTo(k - 1) \o calls[k].steps

AllSteps == StepsUpTo(Len(calls))

BaseOf(path) == (CHOOSE l \in Libs : l.path = path).base

\* The library copies into shared/lib/<base> that succeeded, in order.
IsLibCopy(s, base) == s.op = "copy_lib" /\ s.ok /\ BaseOf(s.arg) = base
LibCopies(base) == SelectSeq(AllSteps, LAMBDA s : IsLibCopy(s, base))

\* The launcher copies to <dst>/sharun that succeeded.
IsLauncherCopy(s) == s.op = "copy_launcher" /\ s.ok
LauncherCopies == SelectSeq(AllSteps, IsLauncherCopy)

\* The batch went through a non-empty argument list and the process ended.
BatchOver == pc = "exited" /\ Len(args) > 0

LauncherMissing == "sharun not found in PATH"

(***************************************************************************)
(* C1.  Library deduplication is first-writer-wins: shared/lib/<base>      *)
(* always holds the content of the first library copied under that base    *)
(* name in the batch; a later library of the same base name from another   *)
(* source path never overwrites it.                                        *)
(***************************************************************************)
C1_FirstWriterWins ==
    \A base \in LibBases :
        LibCopies(base) # <<>> =>
            /\ fs.sharedLib[base].kind = "file"
            /\ fs.sharedLib[base].data = LibCopies(base)[1].arg

(***************************************************************************)
(* C2.  The launcher is copied into the output root exactly once per       *)
(* batch: the first dynamic binary copies it, every later dynamic binary   *)
(* reuses it without writing it again.                                     *)
(***************************************************************************)
C2_LauncherCopiedOnce == Len(LauncherCopies) <= 1

(***************************************************************************)
(* C3.  For a non-empty argument list the process exits with status 0 if   *)
(* and only if no processBinary call returned an error.                    *)
(***************************************************************************)
C3_ExitStatusReflectsOutcome ==
    BatchOver =>
        (exitCode = 0 <=> \A k \in 1..Len(calls) : calls[k].err = Nil)

(***************************************************************************)
(* C6.  Launcher-missing is batch-fatal: once a dynamic binary has failed  *)
(* because the launcher is not on the search path, no later argument is    *)
(* processed; and the batch stops before the end of the argument list      *)
(* under no other condition.                                               *)
(***************************************************************************)
C6_LauncherMissingAbortsBatch ==
    /\ \A k \in 1..Len(calls) :
           calls[k].err = LauncherMissing => k = Len(calls)
    /\ (BatchOver /\ Len(calls) < Len(args)) =>
           calls[Len(calls)].err = LauncherMissing

\* The createSymlink calls of call k, and the case C4 is about.
LinkAttempts(k) == SelectSeq(calls[k].steps, LAMBDA s : s.op = "symlink")

EntryInTheWay(k) ==
    /\ env.createLinks
    /\ calls[k].class = "dynamic"
    /\ calls[k].pre.bin[calls[k].bin.name].kind # "none"

(***************************************************************************)
(* C4.  Symlink no-overwrite: with link creation enabled, when an entry    *)
(* (regular file or symlink) already exists at <dst>/bin/<name> and a      *)
(* dynamic binary <name> is processed, no symlink is made (whenever        *)
(* createSymlink is reached it fails with "file exists", and it is reached *)
(* whenever the launcher was found), the existing entry is left as it was, *)
(* and the binary ends Failed; so a dynamic binary name processed a second *)
(* time fails.                                                             *)
(***************************************************************************)
C4_SymlinkNoOverwrite ==
    /\ \A k \in 1..Len(calls) :
           EntryInTheWay(k) =>
               /\ calls[k].err # Nil
               /\ Post(k).bin[calls[k].bin.name] = calls[k].pre.bin[calls[k].bin.name]
               /\ \A n \in 1..Len(LinkAttempts(k)) : ~LinkAttempts(k)[n].ok
               /\ LinkAttempts(k) # <<>> => calls[k].err = "file exists"
               /\ env.launcherOnPath => LinkAttempts(k) # <<>>
    /\ \A j, k \in 1..Len(calls) :
           (/\ j < k
            /\ env.createLinks
            /\ calls[j].class = "dynamic"
            /\ calls[k].class = "dynamic"
            /\ calls[j].bin.name = calls[k].bin.name) => calls[k].err # Nil

\* A dynamic binary found a regular file at bin/<name> and failed on the
\* symlink; the file is still there.
C4_Witness ==
    \E k \in 1..Len(calls) :
        /\ EntryInTheWay(k)
        /\ calls[k].pre.bin[calls[k].bin.name].kind = "file"
        /\ calls[k].err = "file exists"
        /\ Post(k).bin[calls[k].bin.name].kind = "file"

\* The names of the symlinks in bin/; a static binary installed with
\* stripping disabled.
SymlinkNames(tree) == {n \in Names : tree.bin[n].kind = "symlink"}

StaticDone(k) ==
    /\ ~env.strip
    /\ calls[k].class = "static"
    /\ calls[k].err = Nil

(***************************************************************************)
(* C8.  Static round-trip: with stripping disabled, a static binary A      *)
(* processed successfully leaves, read at <dst>/bin/<A>, the content of    *)
(* the input file, unstripped, with mode 0755; it creates no launcher, no  *)
(* symlink and nothing under shared/.                                      *)
(***************************************************************************)
C8_StaticRoundTrip ==
    \A k \in 1..Len(calls) :
        StaticDone(k) =>
            LET b    == calls[k].bin
                pre  == calls[k].pre
                post == Post(k)
                got  == ReadAt(post, Path("bin", b.name))
            IN /\ got.kind = "file"
               /\ got.data = b.path
               /\ ~got.stripped
               /\ got.mode = Perm0755
               /\ (post.sharun.kind = "none") = (pre.sharun.kind = "none")
               /\ SymlinkNames(post) = SymlinkNames(pre)
               /\ post.sharedBin = pre.sharedBin
               /\ post.sharedLib = pre.sharedLib
               /\ post.sharedBinDir = pre.sharedBinDir
               /\ post.sharedLibDir = pre.sharedLibDir

\* A static binary was installed into a tree that had no bin/<A>, and one
\* into a tree that already had a bin/ entry of that name.
C8_Witness ==
    /\ \E k \in 1..Len(calls) :
           /\ StaticDone(k)
           /\ calls[k].pre.bin[calls[k].bin.name].kind = "none"
           /\ Post(k).bin[calls[k].bin.name].kind = "file"
    /\ \E k \in 1..Len(calls) :
           /\ StaticDone(k)
           /\ calls[k].pre.bin[calls[k].bin.name].kind # "none"

\* The operations of the dynamic path; those call k attempted; the ldd
\* invocation failed on the (regular) file of call k.
DynamicOps == {"find_launcher", "copy_launcher", "chmod_launcher", "symlink",
               "copy_shared", "strip_shared", "resolve", "copy_lib", "strip_lib"}

OpsOf(k) == {calls[k].steps[n].op : n \in 1..Len(calls[k].steps)}

ProbeFailed(k) == calls[k].bin.stat = "regular" /\ calls[k].bin.ldd = "fail"

(***************************************************************************)
(* C10.  Fallback classification: when the ldd invocation itself fails on  *)
(* a regular file, the classifier answers static with no error, the binary *)
(* goes down the static install path (and down no step of the dynamic      *)
(* path), and the batch goes on to the end of the argument list.           *)
(***************************************************************************)
C10_FallbackClassification ==
    /\ \A k \in 1..Len(calls) :
           ProbeFailed(k) =>
               /\ isDynamicExecutable(calls[k].bin) = [dynamic |-> FALSE, err |-> Nil]
               /\ calls[k].class = "static"
               /\ "copy_static" \in OpsOf(k)
               /\ OpsOf(k) \cap DynamicOps = {}
               /\ pc = "exited" => Len(calls) = Len(args)
               /\ pc = "loop" => i = Len(calls) + 1
    /\ BatchOver => Len(calls) = Len(args)

\* The probe failed on a readable non-ELF file, which was then installed as
\* a static binary, and on an unreadable file, whose static install failed;
\* a later argument was still processed.
C10_Witness ==
    \E j, k \in 1..Len(calls) :
        /\ ProbeFailed(j) /\ calls[j].err = Nil
        /\ ReadAt(Post(j), Path("bin", calls[j].bin.name)).data = calls[j].bin.path
        /\ ProbeFailed(k) /\ calls[k].err = "read failed"
        /\ Len(calls) > j /\ Len(calls) > k

(***************************************************************************)
(* C5.  Partial-batch resilience.  Batch(list) is the run of main's loop   *)
(* on another argument list, from an empty tree and with the same flags:   *)
(* the "as if the failing input had not been in the list" of the claim.    *)
(***************************************************************************)
RECURSIVE RunFrom(_, _, _)
RunFrom(tree, list, errs) ==
    IF list = <<>> THEN [fs |-> tree, errs |-> errs]
    ELSE LET r == processBinary(tree, Head(list), env)
         IN RunFrom(r.fs, Tail(list), Append(errs, r.err))

Batch(list) == RunFrom(EmptyFS, list, <<>>)

\* The argument list without its x-th argument, and where the k-th argument
\* of the full list is in it.
Without(x) == [k \in 1..(Len(args) - 1) |-> IF k < x THEN args[k] ELSE args[k + 1]]
Shifted(k, x) == IF k < x THEN k ELSE k - 1

ResolvedBases(b) == {getLibs(b).libs[n].base : n \in 1..Len(getLibs(b).libs)}

\* The full output of a binary in a tree: for a static binary bin/<name>
\* (the entry and what reading it gives); for a dynamic binary the launcher,
\* the symlink bin/<name> (with link creation enabled), shared/bin/<name>
\* and the libraries resolved for it.
OutputOf(tree, b) ==
    IF isDynamicExecutable(b).dynamic
    THEN [entry |-> IF env.createLinks THEN tree.bin[b.name] ELSE NoEntry,
          launcher |-> tree.sharun,
          shared |-> tree.sharedBin[b.name],
          libs |-> [l \in ResolvedBases(b) |-> tree.sharedLib[l]]]
    ELSE [entry |-> tree.bin[b.name],
          read |-> ReadAt(tree, Path("bin", b.name))]

\* The files and symlinks of a tree (not its directories).
Entries(tree) ==
    [sharun |-> tree.sharun, bin |-> tree.bin,
     sharedBin |-> tree.sharedBin, sharedLib |-> tree.sharedLib]

\* C5 as claimed: a failure of one input does not change the outcome of any
\* other input: every input that ends Processed when the failing input is
\* left out of the list ends Processed in the full list too, with the same
\* full output.
C5_PartialBatchResilience ==
    BatchOver =>
        \A x \in 1..Len(calls) :
            calls[x].err # Nil =>
                \A k \in (1..Len(args)) \ {x} :
                    Batch(Without(x)).errs[Shifted(k, x)] = Nil =>
                        /\ k <= Len(calls)
                        /\ calls[k].err = Nil
                        /\ OutputOf(fs, args[k]) =
                               OutputOf(Batch(Without(x)).fs, args[k])

\* The input failed before it wrote any file or symlink: its path is
\* missing or not a regular file, it cannot be read, or it is dynamic and
\* the launcher is not on PATH.
EarlyFailure(x) ==
    \/ calls[x].class = "none" /\ calls[x].err # Nil
    \/ calls[x].class = "static" /\ calls[x].err = "read failed"
    \/ calls[x].class = "dynamic" /\ calls[x].err = LauncherMissing

\* C5 as amended: a failing input never stops the batch; an input that
\* fails before writing any file or symlink leaves the files and symlinks
\* of the tree as they were, and every other input then ends exactly as if
\* it had not been in the list (same result, same files and symlinks).
C5_EarlyFailureIsIsolated ==
    /\ BatchOver => Len(calls) = Len(args)
    /\ \A x \in 1..Len(calls) :
           EarlyFailure(x) => Entries(Post(x)) = Entries(calls[x].pre)
    /\ BatchOver =>
           \A x \in 1..Len(calls) :
               EarlyFailure(x) =>
                   /\ \A k \in (1..Len(args)) \ {x} :
                          calls[k].err = Batch(Without(x)).errs[Shifted(k, x)]
                   /\ Entries(fs) = Entries(Batch(Without(x)).fs)

\* A batch has ended in which a valid static binary came before, and a
\* valid dynamic binary after, an input that failed early; both are
\* Processed.
C5_Witness ==
    /\ BatchOver
    /\ Len(calls) = 3
    /\ calls[1].class = "static" /\ calls[1].err = Nil
    /\ EarlyFailure(2)
    /\ calls[3].class = "dynamic" /\ calls[3].err = Nil

(***************************************************************************)
(* C7.  Dynamic closure completeness.                                      *)
(***************************************************************************)
DynDone(k) == calls[k].class = "dynamic" /\ calls[k].err = Nil

LibNames(tree) == {l \in LibBases : tree.sharedLib[l].kind = "file"}

\* The base names of the libraries resolved for the dynamic binaries
\* processed successfully so far.
ClosureOfDone == UNION {ResolvedBases(calls[k].bin) : k \in {j \in 1..Len(calls) : DynDone(j)}}

\* The dynamic binaries that failed while their libraries were installed.
FailedInLibraries(k) ==
    /\ calls[k].class = "dynamic"
    /\ calls[k].err # Nil
    /\ "copy_lib" \in OpsOf(k)

ClosureComplete(k) ==
    DynDone(k) =>
        /\ Post(k).sharedBin[calls[k].bin.name].kind = "file"
        /\ ResolvedBases(calls[k].bin) \subseteq LibNames(Post(k))

\* C7 as claimed: after a dynamic binary is processed successfully its
\* shared/bin/<B> and all its resolved libraries are there, and over a
\* whole batch the names in shared/lib/ are exactly the base names of the
\* libraries resolved for the successfully processed dynamic binaries.
C7_ClosureExact ==
    /\ \A k \in 1..Len(calls) : ClosureComplete(k)
    /\ BatchOver => LibNames(fs) = ClosureOfDone

\* C7 as amended: nothing is missing (as claimed), and every name in
\* shared/lib/ is the base name of a library resolved for a successfully
\* processed dynamic binary or of one copied for a dynamic binary that
\* failed later in its library installation, whose earlier copies stay.
C7_ClosureComplete ==
    /\ \A k \in 1..Len(calls) : ClosureComplete(k)
    /\ ClosureOfDone \subseteq LibNames(fs)
    /\ LibNames(fs) \ ClosureOfDone \subseteq
           UNION {ResolvedBases(calls[k].bin) :
                      k \in {j \in 1..Len(calls) : FailedInLibraries(j)}}
    /\ LibNames(fs) = {l \in LibBases : LibCopies(l) # <<>>}

\* A dynamic binary was processed successfully, another failed on its
\* second library, and the first library of that one is an extra name in
\* shared/lib/.
C7_Witness ==
    /\ BatchOver
    /\ \E k \in 1..Len(calls) : DynDone(k) /\ Len(calls[k].bin.libs) = 2
    /\ \E k \in 1..Len(calls) : FailedInLibraries(k)
    /\ LibNames(fs) \ ClosureOfDone # {}

(***************************************************************************)
(* C9.  Launcher and symlink layout.  The tree has one path for the        *)
(* launcher, <dst>/sharun, so it holds at most one launcher file.          *)
(***************************************************************************)
StaticInputs(n) ==
    {calls[k].bin.path :
         k \in {j \in 1..Len(calls) :
                    calls[j].class = "static" /\ calls[j].bin.name = n}}

\* Every entry of bin/ is a regular copy of a static input of that name or
\* a symlink to ../sharun, and no symlink dangles.
BinLayout ==
    /\ \A n \in Names :
           /\ fs.bin[n].kind = "file" => fs.bin[n].data \in StaticInputs(n)
           /\ fs.bin[n].kind = "symlink" => fs.bin[n].target = "../sharun"
    /\ SymlinkNames(fs) # {} => fs.sharun.kind = "file"

\* Two dynamic binaries processed successfully have two symlinks, both
\* resolving to the launcher file.
TwoSymlinks ==
    \A j, k \in 1..Len(calls) :
        (j < k /\ DynDone(j) /\ DynDone(k)) =>
            /\ calls[j].bin.name # calls[k].bin.name
            /\ {calls[j].bin.name, calls[k].bin.name} \subseteq SymlinkNames(fs)
            /\ fs.sharun.kind = "file"
            /\ ReadAt(fs, Path("bin", calls[j].bin.name)) = fs.sharun
            /\ ReadAt(fs, Path("bin", calls[k].bin.name)) = fs.sharun

\* C9 as claimed: in every state the bin/ layout holds, and after two
\* dynamic binaries there are two symlinks resolving to the one launcher.
C9_LauncherAndSymlinkLayout == BinLayout /\ TwoSymlinks

\* C9 as amended: the bin/ layout holds in every state; with link creation
\* enabled, two dynamic binaries processed successfully have two symlinks
\* resolving to the one launcher; with it disabled bin/ has no symlink.
C9_LayoutWithLinksEnabled ==
    /\ BinLayout
    /\ env.createLinks => TwoSymlinks
    /\ ~env.createLinks => SymlinkNames(fs) = {}

\* Two dynamic binaries have been processed successfully with link
\* creation enabled: bin/ holds two symlinks.
C9_Witness ==
    /\ env.createLinks
    /\ \E j, k \in 1..Len(calls) : j < k /\ DynDone(j) /\ DynDone(k)
    /\ Cardinality(SymlinkNames(fs)) = 2

\* The call k performed the copy step op successfully.
CopyDone(k, op) ==
    \E n \in 1..Len(calls[k].steps) :
        calls[k].steps[n].op = op /\ calls[k].steps[n].ok

(***************************************************************************)
(* C11.  Asymmetric overwrite policy: the static install into bin/<name>   *)
(* and the copy of a dynamic binary into shared/bin/<name> replace the     *)
(* content of a file already there (afterwards the destination reads as    *)
(* the new input), whereas symlink creation and library installation never *)
(* replace an existing entry.                                              *)
(***************************************************************************)
C11_AsymmetricOverwrite ==
    \A k \in 1..Len(calls) :
        LET b    == calls[k].bin
            pre  == calls[k].pre
            post == Post(k)
        IN /\ CopyDone(k, "copy_static") =>
                  ReadAt(post, Path("bin", b.name)).data = b.path
           /\ CopyDone(k, "copy_shared") =>
                  post.sharedBin[b.name].data = b.path
           /\ (calls[k].class = "dynamic" /\ pre.bin[b.name].kind # "none") =>
                  post.bin[b.name] = pre.bin[b.name]
           /\ \A l \in LibBases :
                  pre.sharedLib[l].kind = "file" =>
                      post.sharedLib[l].data = pre.sharedLib[l].data

(***************************************************************************)
(* C12.  Every failure is reported.                                        *)
(***************************************************************************)
\* What stderr holds when every failed call among the first k has logged
\* one record, with its path and its error, before the next call began.
RECURSIVE ExpectedLog(_)
ExpectedLog(k) ==
    IF k = 0 THEN <<>>
    ELSE IF calls[k].err # Nil
         THEN Append(ExpectedLog(k - 1), [binary |-> calls[k].bin.path,
                                          err |-> calls[k].err])
         ELSE ExpectedLog(k - 1)

\* A step of a component failed in call k: os.Stat or the regular-file
\* test, the ldd invocation of the classifier, or an operation on the tree.
StepFailed(k) ==
    \/ calls[k].bin.stat # "regular"
    \/ calls[k].bin.ldd = "fail"
    \/ \E n \in 1..Len(calls[k].steps) : ~calls[k].steps[n].ok

\* As StepFailed, but for the ldd invocation of the classifier.
StepFailedPastClassifier(k) ==
    \/ calls[k].bin.stat # "regular"
    \/ \E n \in 1..Len(calls[k].steps) : ~calls[k].steps[n].ok

\* C12 as claimed: each failing processBinary call has logged exactly one
\* record with its path and error before the next input starts, and no
\* failing step of any component ends in a success without a report.
C12_EveryFailureReported ==
    /\ stderr = ExpectedLog(Len(calls))
    /\ \A k \in 1..Len(calls) : StepFailed(k) => calls[k].err # Nil

\* C12 as amended: each failing processBinary call has logged exactly one
\* record with its path and error before the next input starts; every
\* failing step makes the call fail, and so be reported, except a failing
\* ldd invocation in the classifier, which is read as "static" and is not
\* reported: the call goes on and can end Processed.
C12_FailuresReportedButProbe ==
    /\ stderr = ExpectedLog(Len(calls))
    /\ \A k \in 1..Len(calls) :
           /\ StepFailedPastClassifier(k) => calls[k].err # Nil
           /\ calls[k].err # Nil => StepFailedPastClassifier(k)
           /\ (calls[k].bin.stat = "regular" /\ calls[k].bin.ldd = "fail") =>
                  calls[k].err \in {Nil, "read failed", "strip command not found",
                                    "failed to strip"}

\* Two calls failed and were logged, and a third, on which ldd failed, was
\* Processed with nothing logged for it.
C12_Witness ==
    /\ Len(stderr) = 2
    /\ Len(calls) = 3
    /\ \E k \in 1..3 : calls[k].bin.ldd = "fail" /\ calls[k].bin.stat = "regular"
                         /\ calls[k].err = Nil

\* The strip steps, the errors tryStrip returns, and the files of a tree.
StripOps == {"strip_static", "strip_shared", "strip_lib"}
StripErrors == {"strip command not found", "failed to strip"}

FilesOf(tree) ==
    {e \in {tree.sharun} \cup {tree.bin[n] : n \in Names}
           \cup {tree.sharedBin[n] : n \in Names}
           \cup {tree.sharedLib[l] : l \in LibBases} : e.kind = "file"}

(***************************************************************************)
(* C13.  The stripper is required only when stripping is requested: with   *)
(* -strip off, no step fails for a missing strip tool and no file is       *)
(* stripped, whether or not the tool is on PATH; with -strip on and the    *)
(* tool missing (or failing on the file), the step that attempted the      *)
(* strip fails, it is the last step of that binary, the binary ends Failed *)
(* with tryStrip's error, and the batch goes on to the end of the list.    *)
(***************************************************************************)
C13_StripOnlyWhenRequested ==
    /\ ~env.strip =>
           /\ \A k \in 1..Len(calls) : calls[k].err \notin StripErrors
           /\ \A f \in FilesOf(fs) : ~f.stripped
    /\ \A k \in 1..Len(calls) :
           \A n \in 1..Len(calls[k].steps) :
               calls[k].steps[n].op \in StripOps =>
                   /\ ~env.strip => calls[k].steps[n].ok
                   /\ (env.strip /\ ~env.stripOnPath) =>
                          /\ ~calls[k].steps[n].ok
                          /\ calls[k].err = "strip command not found"
                   /\ ~calls[k].steps[n].ok =>
                          /\ n = Len(calls[k].steps)
                          /\ calls[k].err \in StripErrors
    /\ BatchOver => Len(calls) = Len(args)

\* With -strip off and no strip on PATH, a static and a dynamic binary were
\* processed successfully.
C13_Witness ==
    /\ ~env.strip /\ ~env.stripOnPath
    /\ \E k \in 1..Len(calls) : calls[k].class = "static" /\ calls[k].err = Nil
    /\ \E k \in 1..Len(calls) : DynDone(k)

\* The steps of the dynamic path for b in the order of lines 103-188, as
\* pairs <<op, arg>>: the launcher, the link, the shared copy, the resolution,
\* then each library in resolver order.
RECURSIVE LibrarySteps(_)
LibrarySteps(libs) ==
    IF libs = <<>> THEN <<>>
    ELSE << <<"copy_lib", Head(libs).path>>, <<"strip_lib", Head(libs).path>> >>
             \o LibrarySteps(Tail(libs))

DynamicSteps(b) ==
    << <<"mkdir", "dst">>,
       <<"find_launcher", "sharun">>, <<"copy_launcher", "sharun">>,
       <<"chmod_launcher", "sharun">>,
       <<"mkdir", "bin">> >>
    \o (IF env.createLinks THEN << <<"symlink", b.name>> >> ELSE <<>>)
    \o << <<"mkdir", "shared/bin">>, <<"mkdir", "shared/lib">>,
          <<"copy_shared", b.name>>, <<"strip_shared", b.name>>,
          <<"resolve", b.name>> >>
    \o LibrarySteps(b.libs)

\* The call k failed at the step op.
FailedAt(k, op) ==
    /\ calls[k].steps # <<>>
    /\ calls[k].steps[Len(calls[k].steps)].op = op
    /\ ~calls[k].steps[Len(calls[k].steps)].ok

(***************************************************************************)
(* C14.  Dynamic-path step ordering: the steps of a dynamic binary are a   *)
(* prefix of: install launcher, link bin/<name>, copy to shared/bin/<name>,*)
(* resolve, install each library in resolver order.  Every step but the    *)
(* last succeeded; the binary is Processed exactly when the whole sequence *)
(* ran and succeeded, and Failed at the first failing step otherwise.  A   *)
(* failed symlink leaves shared/bin/ and shared/lib/ as they were; a       *)
(* failed resolution leaves shared/lib/ as it was although bin/<name> and  *)
(* shared/bin/<name> exist.                                                *)
(***************************************************************************)
C14_DynamicStepOrdering ==
    \A k \in 1..Len(calls) :
        calls[k].class = "dynamic" =>
            LET b     == calls[k].bin
                steps == calls[k].steps
                want  == DynamicSteps(b)
                pre   == calls[k].pre
                post  == Post(k)
            IN /\ Len(steps) \in 1..Len(want)
               /\ \A n \in 1..Len(steps) :
                      /\ <<steps[n].op, steps[n].arg>> = want[n]
                      /\ n < Len(steps) => steps[n].ok
               /\ (calls[k].err = Nil) <=>
                      (Len(steps) = Len(want) /\ steps[Len(steps)].ok)
               /\ calls[k].err # Nil => ~steps[Len(steps)].ok
               /\ FailedAt(k, "symlink") =>
                      /\ post.sharedBin = pre.sharedBin
                      /\ post.sharedLib = pre.sharedLib
                      /\ post.sharedBinDir = pre.sharedBinDir
               /\ FailedAt(k, "resolve") =>
                      /\ post.sharedLib = pre.sharedLib
                      /\ post.sharedBin[b.name].data = b.path
                      /\ env.createLinks => post.bin[b.name].kind = "symlink"

\* In one batch a dynamic binary failed at the resolution, another at the
\* symlink, and a third ran every step with two libraries.
C14_Witness ==
    /\ \E k \in 1..Len(calls) : FailedAt(k, "resolve")
    /\ \E k \in 1..Len(calls) : FailedAt(k, "symlink")
    /\ \E k \in 1..Len(calls) : DynDone(k) /\ Len(calls[k].bin.libs) = 2

(***************************************************************************)
(* C15.  Installing a static binary never changes the launcher: once       *)
(* <dst>/sharun has been copied its content is the launcher artifact in    *)
(* every later state, and a processBinary call on a static binary leaves   *)
(* <dst>/sharun as it found it, also when bin/<name> is a symlink to       *)
(* ../sharun at the time the static copy is written.                       *)
(***************************************************************************)
C15_StaticNeverChangesLauncher ==
    /\ fs.sharun.kind = "file" => fs.sharun.data = LauncherPath
    /\ \A k \in 1..Len(calls) :
           (calls[k].class = "static" /\ calls[k].pre.sharun.kind = "file") =>
               Post(k).sharun = calls[k].pre.sharun

(***************************************************************************)
(* C16.  An InputError leaves the output tree untouched: a processBinary   *)
(* call on a missing path or on a path that is not a regular file fails    *)
(* at the Stat step, before classification and before any step on the      *)
(* filesystem: the tree after the call is the tree before it, the          *)
(* destination directory included.                                         *)
(***************************************************************************)
C16_InputErrorLeavesTreeUntouched ==
    \A k \in 1..Len(calls) :
        calls[k].bin.stat # "regular" =>
            /\ calls[k].err \in {"no such file or directory",
                                 "skipped: not a regular file"}
            /\ calls[k].class = "none"
            /\ calls[k].steps = <<>>
            /\ Post(k) = calls[k].pre

\* A batch of a missing path and a directory has ended: both calls failed
\* and the destination directory does not exist.
C16_Witness ==
    /\ BatchOver
    /\ Len(calls) = 2
    /\ calls[1].bin.stat = "missing" /\ calls[2].bin.stat = "dir"
    /\ ~fs.dst
    /\ fs = EmptyFS

\* The history records one more call, made on the current tree with the
\* argument at the next position, and keeps the earlier calls.
OneMoreCall ==
    /\ Len(calls') = Len(calls) + 1
    /\ Len(calls') <= Len(args)
    /\ SubSeq(calls', 1, Len(calls)) = calls
    /\ calls'[Len(calls')].bin = args[Len(calls')]
    /\ calls'[Len(calls')].pre = fs
    /\ Len(stdout') + Len(stderr') = Len(stdout) + Len(stderr) + 1

\* The calls made so far are on the first arguments, in their order, and
\* each has ended with one line: Processed on stdout or its error on stderr.
CallsInOrder ==
    /\ Len(calls) <= Len(args)
    /\ \A k \in 1..Len(calls) : calls[k].bin = args[k]
    /\ Len(args) > 0 => Len(stdout) + Len(stderr) = Len(calls)
    /\ pc = "loop" => Len(calls) = i - 1

(***************************************************************************)
(* C17.  Sequential in-order processing and termination: for every         *)
(* non-empty argument list, processBinary is called exactly once per       *)
(* positional argument, in the order given, each call ending (Processed    *)
(* or Failed) before the next is made on the tree it left, and the         *)
(* process then terminates.                                                *)
(***************************************************************************)
C17_InOrderAndTerminates ==
    /\ [][calls' # calls => OneMoreCall]_vars
    /\ [](CallsInOrder /\ (BatchOver /\ Len(args) > 0 => Len(calls) = Len(args)))
    /\ <>(pc = "exited")

\* A batch of MaxBatch arguments has ended: one call per argument, of which
\* one failed and one succeeded.
C17_Witness ==
    /\ pc = "exited"
    /\ Len(args) = MaxBatch
    /\ Len(calls) = MaxBatch
    /\ \E j, k \in 1..Len(calls) : calls[j].err # Nil /\ calls[k].err = Nil

\* What the call k would have returned with link creation enabled, on the
\* tree before it with the entry bin/<name> taken out of the way.
WithLinks(k) ==
    processBinary([calls[k].pre EXCEPT !.bin[calls[k].bin.name] = NoEntry],
                  calls[k].bin, [env EXCEPT !.createLinks = TRUE])

(***************************************************************************)
(* C19.  With symlink creation disabled, processing a dynamic binary       *)
(* makes no symlink step, leaves every entry of <dst>/bin/ as it was and   *)
(* never fails with "file exists", whatever is at bin/<name>; and the      *)
(* launcher, shared/bin/ and shared/lib/ end as they do with link creation *)
(* enabled (where no entry is in the way of the symlink), with the same    *)
(* error or success.                                                       *)
(***************************************************************************)
C19_LinksDisabled ==
    ~env.createLinks =>
        \A k \in 1..Len(calls) :
            calls[k].class = "dynamic" =>
                LET post == Post(k)
                    pre  == calls[k].pre
                    with == WithLinks(k)
                IN /\ post.bin = pre.bin
                   /\ calls[k].err # "file exists"
                   /\ \A n \in 1..Len(calls[k].steps) :
                          calls[k].steps[n].op # "symlink"
                   /\ calls[k].err = with.err
                   /\ post.sharun = with.fs.sharun
                   /\ post.sharedBin = with.fs.sharedBin
                   /\ post.sharedLib = with.fs.sharedLib
                   /\ post.binDir = with.fs.binDir
                   /\ with.err = Nil =>
                          with.fs.bin[calls[k].bin.name] = Symlink("../sharun")

\* With link creation disabled, a dynamic binary was processed successfully
\* although bin/<name> already held a file (a static binary of that name),
\* which is still there.
C19_Witness ==
    /\ ~env.createLinks
    /\ \E k \in 1..Len(calls) :
           /\ DynDone(k)
           /\ calls[k].pre.bin[calls[k].bin.name].kind = "file"
           /\ Post(k).bin[calls[k].bin.name] = calls[k].pre.bin[calls[k].bin.name]
           /\ Post(k).sharun.kind = "file"
           /\ Len(calls[k].bin.libs) = 2

\* c and d are the same letter, in the same or in different case.
SameLetter(c, d) ==
    \/ c = d
    \/ \E n \in 1..Len(UpperLetters) : {c, d} = {UpperLetters[n], LowerLetters[n]}

\* s contains substr when case is ignored.
ContainsIgnoringCase(s, substr) ==
    \E n \in 0..(Len(s) - Len(substr)) :
        \A m \in 1..Len(substr) : SameLetter(s[n + m], substr[m])

(***************************************************************************)
(* C18.  Classification rule: for a run of ldd that succeeded, the binary  *)
(* is classified static if and only if the report contains, case ignored,  *)
(* "not a dynamic executable" or "not a valid dynamic program", and        *)
(* dynamic for every other report; no run, failed or not, makes the        *)
(* classifier return an error.                                             *)
(***************************************************************************)
C18_ClassificationRule ==
    verdict # NoVerdict =>
        /\ verdict.err = Nil
        /\ ~probe.failed =>
               (~verdict.dynamic <=>
                    \/ ContainsIgnoringCase(probe.output, NotADynamicExecutable)
                    \/ ContainsIgnoringCase(probe.output, NotAValidDynamicProgram))

\* A successful run whose report spells a marker with capitals, after a
\* path and before a line end, has been classified static.
C18_Witness ==
    /\ verdict # NoVerdict
    /\ ~probe.failed
    /\ probe.output = PrefixPath \o BodyProgramMixed \o <<"\n">>
    /\ ~verdict.dynamic

(***************************************************************************)
(* C20.  pelfd tracker has no stale keys: after every scan, each key of    *)
(* the tracker is the path of a bundle found in that scan; a tracked path  *)
(* that was not found, whether its entry is a record or nil, is no longer  *)
(* a key.                                                                  *)
(***************************************************************************)
C20_NoStaleKeys ==
    [][scans' = scans + 1 => Keys(config'.tracker) \subseteq existing']_vars

\* The step is a scan of the daemon.
ScanStep == scans' = scans + 1

\* The step is a scan that sees the scanned directory as the scan before it
\* (of the same run of the daemon) saw it: the same files, each with the
\* same content, hence the same hash, and the same mode.
RepeatedScan == ScanStep /\ observed = disk

(***************************************************************************)
(* C21.  pelfd scan quiescence: a scan that observes the same bundle       *)
(* files, hashes and permissions as the scan before it processes no        *)
(* bundle, leaves the tracker as it was and does not save the              *)
(* configuration file.                                                     *)
(***************************************************************************)
C21_ScanQuiescence ==
    [][RepeatedScan =>
           /\ processed' = {}
           /\ config'.tracker = config.tracker
           /\ ~changed']_vars

\* The output files an entry records: its fields that are not empty.
Recorded(entry) == {entry.png, entry.xpm, entry.svg, entry.desktop} \ {NoPath}

(***************************************************************************)
(* C22.  pelfd cleanup is complete: when a scan does not find a tracked    *)
(* bundle whose entry is not nil, then at the end of that scan every       *)
(* metadata file recorded in the entry (Png, Xpm, Svg, Desktop) is gone    *)
(* from the icon and application directories and the path is no longer a   *)
(* key of the tracker.                                                     *)
(***************************************************************************)
C22_CleanupComplete ==
    [][ScanStep =>
           \A p \in Keys(config.tracker) \ existing' :
               ~config.tracker[p].nil =>
                   /\ ~config'.tracker[p].tracked
                   /\ \A f \in Recorded(config.tracker[p]) : ~files'[f].exists]_vars

\* The step changes the scanned directory (a file is put, replaced, made
\* executable or not, or removed).
DirectoryStep == changes' = changes + 1

\* The bundle p at the start of a scan, by its tracker entry.
TrackedNil(p) == config.tracker[p].tracked /\ config.tracker[p].nil

TrackedEntry(p) == config.tracker[p].tracked /\ ~config.tracker[p].nil

\* What a scan does with the bundles it finds, by their entries at its
\* start: one with a nil entry is skipped and stays nil; one with an entry
\* that is not nil is processed exactly when its hash differs from the
\* recorded one and it is executable.
ScanByEntry ==
    ScanStep =>
        \A p \in BundlePaths :
            disk[p].present =>
                /\ TrackedNil(p) =>
                       /\ p \notin processed'
                       /\ config'.tracker[p] = NilEntry
                /\ TrackedEntry(p) =>
                       (p \in processed' <=>
                            /\ computeSHA(disk, p).sha256
                                   # config.tracker[p].sha.sha256
                            /\ isExecutable(disk, p))

(***************************************************************************)
(* C23 as claimed.  pelfd nil entries are sticky: once a path has been     *)
(* recorded with a nil entry, every later scan that still finds the file   *)
(* skips it without processing it, whatever its mode and hash are now; a   *)
(* found bundle with an entry that is not nil is processed in a scan       *)
(* exactly when its hash differs from the recorded one and it is           *)
(* executable.                                                             *)
(***************************************************************************)
C23_NilStickyInEveryLaterScan ==
    [][/\ ScanByEntry
       /\ ScanStep => \A p \in markedNil : disk[p].present => p \notin processed']_vars

(***************************************************************************)
(* C23 as amended.  Within one run of the daemon nil entries are sticky:   *)
(* a change of the bundle file never touches the tracker, and a scan that  *)
(* finds a file whose path maps to a nil entry at its start skips it and   *)
(* leaves the entry nil; a found bundle with an entry that is not nil is   *)
(* processed exactly when its hash differs and it is executable.  When     *)
(* the daemon starts again the tracker is what the configuration file      *)
(* holds.                                                                  *)
(***************************************************************************)
C23_NilEntriesSticky ==
    [][/\ DirectoryStep => config' = config
       /\ ScanByEntry
       /\ (~ScanStep /\ ~DirectoryStep) => config' = configFile]_vars

\* The last scan, the second at least, found a file that is executable and
\* gives a png, and left its entry nil without processing it; in the same
\* scan another bundle was processed.
C23_Witness ==
    /\ scans >= 2
    /\ observed = disk
    /\ \E p, q \in BundlePaths :
           /\ disk[p].present /\ disk[p].exec
           /\ "png" \in MetaOf(disk[p].content)
           /\ config.tracker[p] = NilEntry
           /\ p \notin processed
           /\ q \in processed
           /\ ~config.tracker[q].nil

=============================================================================
